---- MODULE Spec2Model ----
(***************************************************************************)
(* The client of the incremental job-streaming protocol                    *)
(* (frontend/src/App.tsx): the read loop of handleSubmit (Frame Decoder),  *)
(* the state updaters it calls (View Reconciler), navigation and export.   *)
(*                                                                         *)
(* Bytes and characters are one-element strings.  "LF" is the newline,     *)
(* "C3" "A9" are the two bytes of the UTF-8 encoding of the character      *)
(* "e'" (U+00E9), "FFFD" is the replacement character.  A JSON body is     *)
(* abbreviated to the tokens that carry its content:                       *)
(*   { M n }      {"type":"metadata","total_pages":n}                      *)
(*   { P n }      {"type":"processing","page_number":n}                    *)
(*   { R n s t }  {"type":"result","page_number":n,"status":"success",     *)
(*                 "ocr_text":t,"page_image":"img"}                        *)
(*   { R n e }    {"type":"result","page_number":n,"status":"error",       *)
(*                 "error":"failed"}                                       *)
(*   { C n }      {"type":"complete","api_calls_made":n}                   *)
(*   { E }        {"type":"error","message":"boom"}                        *)
(*   { U }        {"type":"ping"}  (a type the client does not know)       *)
(***************************************************************************)
EXTENDS Integers, Sequences, FiniteSets, TLC

\* ------------------------------------------------------------------ bounds
\* Pages of a well-formed job: total_pages ranges over 0..MaxPages.
MaxPages == 2
\* A transport chunk holds 1..MaxChunk bytes, or all the bytes that remain.
MaxChunk == 4
\* handleSubmit calls that have not returned, at any one time.
MaxJobs == 2

\* ------------------------------------------------------------- JS values
\* A field that holds undefined (App.tsx:157 writes one explicitly).
Undefined == "undefined"
\* processing_page / api_calls_made when unset.
UndefinedNum == -1
\* useState<StreamingState | null>(null)
Null == [isNull |-> TRUE]

LF == "LF"
Prefix == <<"d", "a", "t", "a", ":", " ">>
DigitChars == <<"0", "1", "2", "3", "4", "5", "6", "7", "8", "9">>
TextChars == {"x", "e'", "FFFD"}

IsDigit(c) == \E i \in 1..Len(DigitChars) : DigitChars[i] = c
Num(c) == (CHOOSE i \in 1..Len(DigitChars) : DigitChars[i] = c) - 1

\* ------------------------------------------------------------ wire format
MetadataEv(n) == [type |-> "metadata", total_pages |-> n]
ProcessingEv(n) == [type |-> "processing", page_number |-> n]
ResultOk(n, t) ==
    [type |-> "result", page_number |-> n, status |-> "success",
     ocr_text |-> t, error |-> Undefined, page_image |-> "img"]
ResultErr(n) ==
    [type |-> "result", page_number |-> n, status |-> "error",
     ocr_text |-> Undefined, error |-> "failed", page_image |-> Undefined]
CompleteEv(n) == [type |-> "complete", api_calls_made |-> n]
ErrorEv == [type |-> "error", message |-> "boom"]
UnknownEv == [type |-> "ping"]

\* UTF-8 bytes of one character of ocr_text.
Utf8Bytes(t) == IF t = "e'" THEN <<"C3", "A9">> ELSE <<t>>

\* The JSON body of an event.
Body(e) ==
    CASE e.type = "metadata" -> <<"{", "M", DigitChars[e.total_pages + 1], "}">>
      [] e.type = "processing" -> <<"{", "P", DigitChars[e.page_number + 1], "}">>
      [] e.type = "result" /\ e.status = "success" ->
            <<"{", "R", DigitChars[e.page_number + 1], "s">>
                \o Utf8Bytes(e.ocr_text) \o <<"}">>
      [] e.type = "result" /\ e.status # "success" ->
            <<"{", "R", DigitChars[e.page_number + 1], "e", "}">>
      [] e.type = "complete" -> <<"{", "C", DigitChars[e.api_calls_made + 1], "}">>
      [] e.type = "error" -> <<"{", "E", "}">>
      [] OTHER -> <<"{", "U", "}">>

\* One frame: the marker, the body, a blank line.
Frame(e) == Prefix \o Body(e) \o <<LF, LF>>

\* What a stream is made of: frames, and lines that are no frame.
EventItem(e) == [kind |-> "event", ev |-> e]
CorruptItem == [kind |-> "corrupt"]
CommentItem == [kind |-> "comment"]

ItemBytes(it) ==
    CASE it.kind = "event" -> Frame(it.ev)
      [] it.kind = "corrupt" -> Prefix \o <<"{", "R", "C3", LF, LF>>
      [] OTHER -> <<":", "x", LF>>

RECURSIVE Encode(_)
Encode(items) ==
    IF items = <<>> THEN <<>>
    ELSE ItemBytes(Head(items)) \o Encode(Tail(items))

\* ---------------------------------------------------------- Frame Decoder
\* new TextDecoder().decode(value, {stream: true}): a lead byte at the end of
\* a chunk waits for the next chunk; an ill-formed sequence decodes to U+FFFD.
\* What byte i of a chunk decodes to, in two slots ("" is no character).  A
\* lead byte waits exactly when the byte before is "C3" (for the first byte:
\* when the decoder kept one).  Slot 1 is the U+FFFD of a lead byte that no
\* continuation follows, slot 2 the character of the byte itself.
Emit(pending, bytes, i, slot) ==
    LET waits == IF i = 1 THEN pending ELSE bytes[i - 1] = "C3"
        b == bytes[i]
    IN IF slot = 1
       THEN IF waits /\ b # "A9" THEN "FFFD" ELSE ""
       ELSE IF b = "C3" THEN ""
            ELSE IF b = "A9" THEN (IF waits THEN "e'" ELSE "FFFD")
            ELSE b

Utf8Decode(pending, bytes) ==
    LET slots == [k \in 1..(2 * Len(bytes)) |->
                    Emit(pending, bytes, (k + 1) \div 2, 2 - (k % 2))]
        IsChar(c) == c # ""
    IN [text |-> SelectSeq(slots, IsChar),
        pending |-> IF bytes = <<>> THEN pending ELSE bytes[Len(bytes)] = "C3"]

\* decoder.decode(value, { stream: true })
DecoderDecode(pending, bytes) == Utf8Decode(pending, bytes)

\* Faulty variant: the text is split at its first newline only, so that the
\* lines after it wait in the buffer for the next chunk.
SplitLinesAtFirst(text) ==
    LET IsNewline(i) == text[i] = LF
        nl == SelectSeq([i \in 1..Len(text) |-> i], IsNewline)
    IN IF nl = <<>> THEN <<text>>
       ELSE <<SubSeq(text, 1, nl[1] - 1), SubSeq(text, nl[1] + 1, Len(text))>>

\* buffer.split('\n'): the pieces between newlines, the last one included.
SplitLines(text) ==
    LET IsNewline(i) == text[i] = LF
        \* the positions of the newlines, ascending
        nl == SelectSeq([i \in 1..Len(text) |-> i], IsNewline)
        from(k) == IF k = 1 THEN 1 ELSE nl[k - 1] + 1
        to(k) == IF k = Len(nl) + 1 THEN Len(text) ELSE nl[k] - 1
    IN [k \in 1..(Len(nl) + 1) |-> SubSeq(text, from(k), to(k))]

\* Faulty variant: the trailing fragment is dropped instead of kept for the
\* next chunk.
PopDiscard(pieces) == <<>>

\* lines.pop() || ''
Pop(pieces) == pieces[Len(pieces)]

\* Faulty variant: the pop is missing, the trailing fragment is handed to the
\* if-chain with the complete lines.
FrontWithFragment(pieces) == pieces

\* what is left in lines after the pop
Front(pieces) == SubSeq(pieces, 1, Len(pieces) - 1)

\* line.startsWith('data: ')
StartsWithData(line) ==
    Len(line) >= Len(Prefix) /\ SubSeq(line, 1, Len(Prefix)) = Prefix

\* line.slice(6)
Slice6(line) == SubSeq(line, Len(Prefix) + 1, Len(line))

\* JSON.parse of a body, and the read of data.type: a value or a throw.
ParseOk(data) == [ok |-> TRUE, data |-> data]
ParseThrow == [ok |-> FALSE]

JSONParse(t) ==
    IF Len(t) < 3 \/ t[1] # "{" \/ t[Len(t)] # "}" THEN ParseThrow
    ELSE CASE Len(t) = 3 /\ t[2] = "E" -> ParseOk(ErrorEv)
           [] Len(t) = 3 /\ t[2] = "U" -> ParseOk(UnknownEv)
           [] Len(t) = 4 /\ t[2] = "M" /\ IsDigit(t[3]) -> ParseOk(MetadataEv(Num(t[3])))
           [] Len(t) = 4 /\ t[2] = "P" /\ IsDigit(t[3]) -> ParseOk(ProcessingEv(Num(t[3])))
           [] Len(t) = 4 /\ t[2] = "C" /\ IsDigit(t[3]) -> ParseOk(CompleteEv(Num(t[3])))
           [] Len(t) = 5 /\ t[2] = "R" /\ IsDigit(t[3]) /\ t[4] = "e" ->
                ParseOk(ResultErr(Num(t[3])))
           [] Len(t) = 6 /\ t[2] = "R" /\ IsDigit(t[3]) /\ t[4] = "s"
                /\ t[5] \in TextChars -> ParseOk(ResultOk(Num(t[3]), t[5]))
           [] OTHER -> ParseThrow

\* --------------------------------------------------------- View Reconciler
\* setStreamingState({ total_pages: 0, results: [], complete: false })
FreshState ==
    [total_pages |-> 0, results |-> <<>>, processing_page |-> UndefinedNum,
     api_calls_made |-> UndefinedNum, complete |-> FALSE]

OCRResult(data) ==
    [page_number |-> data.page_number, ocr_text |-> data.ocr_text,
     status |-> data.status, error |-> data.error, page_image |-> data.page_image]

\* The state the updaters and setters of one chunk act on: acc.ss is
\* streamingState.  An updater applied to null yields an object without
\* results (or throws on prev!.results), and the next render throws on
\* streamingState.results.length: the component tree is unmounted (crashed).
\* Setters of an unmounted component do nothing, so nothing that a call still
\* in flight does after a crash is visible: the model stops there.
ApplyUpdater(acc, ss) ==
    IF acc.ss = Null THEN [acc EXCEPT !.crashed = TRUE]
    ELSE [acc EXCEPT !.ss = ss]

\* data.type === 'metadata'
OnMetadata(acc, data) ==
    ApplyUpdater(acc, [acc.ss EXCEPT !.total_pages = data.total_pages])

\* Faulty variant: the cursor is the page's index, one less than its number.
OnProcessingZeroBased(acc, data) ==
    ApplyUpdater(acc, [acc.ss EXCEPT !.processing_page = data.page_number - 1])

\* Faulty variant: the new state is built without the spread of prev, with an
\* empty list of results.
OnProcessingWithoutSpread(acc, data) ==
    ApplyUpdater(acc, [FreshState EXCEPT !.processing_page = data.page_number])

\* data.type === 'processing'
OnProcessing(acc, data) ==
    ApplyUpdater(acc, [acc.ss EXCEPT !.processing_page = data.page_number])

\* Faulty variant: the newest result is put first.
OnResultPrepend(acc, data) ==
    ApplyUpdater(acc, [acc.ss EXCEPT !.results = <<OCRResult(data)>> \o @,
                                     !.processing_page = UndefinedNum])

\* Faulty variant: only a page that succeeded gets an entry.
OnResultSkipFailed(acc, data) ==
    ApplyUpdater(acc, [acc.ss EXCEPT
                         !.results = IF data.status = "success"
                                     THEN Append(@, OCRResult(data)) ELSE @,
                         !.processing_page = UndefinedNum])

\* Faulty variant: processing_page is left as it was.
OnResultKeepsProcessing(acc, data) ==
    ApplyUpdater(acc, [acc.ss EXCEPT !.results = Append(@, OCRResult(data))])

\* data.type === 'result'
OnResult(acc, data) ==
    ApplyUpdater(acc, [acc.ss EXCEPT !.results = Append(@, OCRResult(data)),
                                     !.processing_page = UndefinedNum])

\* Faulty variant: the api call count is stored, the job is not marked complete
\* and the spinner stays.
OnCompleteCountOnly(acc, data) ==
    ApplyUpdater(acc, [acc.ss EXCEPT !.api_calls_made = data.api_calls_made])

\* Faulty variant: the job is marked complete, the api call count is not stored.
OnCompleteFlagOnly(acc, data) ==
    [ApplyUpdater(acc, [acc.ss EXCEPT !.complete = TRUE]) EXCEPT !.loading = FALSE]

\* data.type === 'complete'
OnComplete(acc, data) ==
    [ApplyUpdater(acc, [acc.ss EXCEPT !.complete = TRUE,
                                      !.api_calls_made = data.api_calls_made])
        EXCEPT !.loading = FALSE]

\* Faulty variant: an error also marks the job complete.
OnErrorMarksComplete(acc, data) ==
    [ApplyUpdater(acc, [acc.ss EXCEPT !.complete = TRUE])
        EXCEPT !.error = data.message, !.loading = FALSE]

\* Faulty variant: the message is recorded, loading stays as it was.
OnErrorKeepsLoading(acc, data) == [acc EXCEPT !.error = data.message]

\* data.type === 'error'
OnError(acc, data) == [acc EXCEPT !.error = data.message, !.loading = FALSE]

\* Faulty variant: the last branch is a plain else, so that an event of an
\* unknown type is taken for an Error (whose message it does not have).
ReduceElseError(acc, data) ==
    IF acc.crashed THEN acc
    ELSE CASE data.type = "metadata" -> OnMetadata(acc, data)
           [] data.type = "processing" -> OnProcessing(acc, data)
           [] data.type = "result" -> OnResult(acc, data)
           [] data.type = "complete" -> OnComplete(acc, data)
           [] data.type = "error" -> OnError(acc, data)
           [] OTHER -> [acc EXCEPT !.error = Undefined, !.loading = FALSE]

\* The if-chain on data.type.
Reduce(acc, data) ==
    IF acc.crashed THEN acc
    ELSE CASE data.type = "metadata" -> OnMetadata(acc, data)
           [] data.type = "processing" -> OnProcessing(acc, data)
           [] data.type = "result" -> OnResult(acc, data)
           [] data.type = "complete" -> OnComplete(acc, data)
           [] data.type = "error" -> OnError(acc, data)
           [] OTHER -> acc

\* One line of the for loop: st.acc is the view, st.delivered the events that
\* reached the if-chain.
ProcessLine(line, st) ==
    IF ~StartsWithData(line) THEN st
    ELSE LET p == JSONParse(Slice6(line)) IN
         IF ~p.ok THEN st
         ELSE [acc |-> Reduce(st.acc, p.data),
               delivered |-> Append(st.delivered, p.data)]

\* Faulty variant: a line that fails to parse ends the loop over the chunk's lines.
RemainingAbort(line, tail) ==
    IF StartsWithData(line) /\ ~JSONParse(Slice6(line)).ok THEN <<>> ELSE tail

\* The lines the for loop still visits after `line`: the catch block neither
\* breaks nor rethrows.
Remaining(line, tail) == tail

RECURSIVE ProcessLines(_, _)
ProcessLines(lines, st) ==
    IF lines = <<>> THEN st
    ELSE ProcessLines(Remaining(Head(lines), Tail(lines)),
                      ProcessLine(Head(lines), st))

\* ------------------------------------------------- streams (Job Driver side)
Statuses == {"success", "error"}
PageText(i) == IF i = 1 THEN "e'" ELSE "x"

PageResult(i, status) ==
    IF status = "success" THEN ResultOk(i, PageText(i)) ELSE ResultErr(i)

RECURSIVE Pages(_, _, _)
Pages(i, n, st) ==
    IF i > n THEN <<>>
    ELSE <<EventItem(ProcessingEv(i)), EventItem(PageResult(i, st[i]))>>
            \o Pages(i + 1, n, st)

\* Metadata{n}, then Processing{i}, Result{i} for i = 1..n, then Complete{n}.
WellFormed(n, st) ==
    <<EventItem(MetadataEv(n))>> \o Pages(1, n, st) \o <<EventItem(CompleteEv(n))>>

WFStreams ==
    UNION {{WellFormed(n, st) : st \in [1..n -> Statuses]} : n \in 0..MaxPages}

NoiseItems == {CorruptItem, CommentItem, EventItem(UnknownEv)}

InsertAt(s, k, z) == SubSeq(s, 1, k) \o <<z>> \o SubSeq(s, k + 1, Len(s))

\* A well-formed stream whose pages succeed, with one line that is no known
\* frame somewhere in it.
AllSucceed(n) == WellFormed(n, [i \in 1..n |-> "success"])

NoisyStreams ==
    UNION {{InsertAt(AllSucceed(n), k, z) : k \in 0..Len(AllSucceed(n)), z \in NoiseItems}
           : n \in 0..MaxPages}

\* A job of three pages whose second page fails, without Processing events.
ReplayExample ==
    <<EventItem(MetadataEv(3)), EventItem(ResultOk(1, "e'")), EventItem(ResultErr(2)),
      EventItem(ResultOk(3, "x")), EventItem(CompleteEv(3))>>

StreamPool == WFStreams \cup NoisyStreams \cup {ReplayExample}

\* The events of the frames of a stream, in order.
RECURSIVE EventsOf(_)
EventsOf(items) ==
    IF items = <<>> THEN <<>>
    ELSE (IF Head(items).kind = "event" THEN <<Head(items).ev>> ELSE <<>>)
            \o EventsOf(Tail(items))

\* ------------------------------------------------------------------- state
VARIABLES
    file,              \* useState<File | null>: a file name, or NoFile
    loading,           \* useState(false)
    streamingState,    \* useState<StreamingState | null>(null)
    error,             \* useState<string>('')
    currentPageIndex,  \* useState(0)
    crashed,           \* a render or an updater threw: the tree is unmounted
    jobs,              \* the handleSubmit calls that have not returned, oldest first
    last,              \* the last call of a handler that is on record: its name
                       \* and argument, the index and view it found (index,
                       \* from), the index it left (post), the document it made
    drivers            \* the Job Driver runs on the server, one per submitted
                       \* document; the first one answers the client's request

vars == <<file, loading, streamingState, error, currentPageIndex, crashed, jobs, last, drivers>>

NoFile == "null"
FileNames == {"a.pdf"}

NoOp == [op |-> "none", index |-> 0, arg |-> 0, from |-> Null, post |-> 0, doc |-> <<>>]
Ran(op, arg, doc) ==
    [op |-> op, index |-> currentPageIndex, arg |-> arg, from |-> streamingState,
     post |-> currentPageIndex', doc |-> doc]

\* A handleSubmit call: the response body still to arrive (rest), the locals
\* buffer and decoder, and where the call stands.  A traced call also records
\* what the stream was made of (items), which events reached the if-chain
\* (delivered), and how the transport cut the stream (cuts): "none" before the
\* first chunk, "bytes" while every chunk held one byte, "whole" when the
\* stream arrived as a single chunk, else "mixed".
NewJob(items, traced) ==
    [rest |-> Encode(items), buffer |-> <<>>, pending |-> FALSE, pc |-> "fetch",
     traced |-> traced, items |-> IF traced THEN items ELSE <<>>,
     delivered |-> <<>>, cuts |-> "none"]

Cut(job, n) ==
    IF ~job.traced THEN "none"
    ELSE IF job.cuts \in {"none", "bytes"} /\ n = 1 THEN "bytes"
    ELSE IF job.cuts = "none" /\ n = Len(job.rest) THEN "whole"
    ELSE "mixed"

\* useState initial values.
Init ==
    /\ file = NoFile
    /\ loading = FALSE
    /\ streamingState = Null
    /\ error = ""
    /\ currentPageIndex = 0
    /\ crashed = FALSE
    /\ jobs = <<>>
    /\ last = NoOp
    /\ drivers = <<>>

\* The state right after handleSubmit was called on a selected PDF.
InitStream ==
    \E items \in StreamPool :
        /\ file = "a.pdf"
        /\ loading = TRUE
        /\ error = ""
        /\ currentPageIndex = 0
        /\ streamingState = FreshState
        /\ crashed = FALSE
        /\ jobs = <<NewJob(items, TRUE)>>
        /\ last = NoOp
        /\ drivers = <<>>

\* ---------------------------------------------------- handleSubmit, the rest
\* fetch resolved with an ok response that has a body.
FetchOk(j) ==
    /\ ~crashed
    /\ jobs[j].pc = "fetch"
    /\ jobs' = [jobs EXCEPT ![j].pc = "reading"]
    /\ UNCHANGED <<drivers, file, loading, streamingState, error, currentPageIndex, crashed, last>>

\* jobs without its j-th call, which returned.
Returned(j) == SubSeq(jobs, 1, j - 1) \o SubSeq(jobs, j + 1, Len(jobs))

\* The outer catch: setError(err.message || ...), setLoading(false).
Caught(j, message) ==
    /\ ~crashed
    /\ jobs' = Returned(j)
    /\ error' = message
    /\ loading' = FALSE
    /\ UNCHANGED <<drivers, file, streamingState, currentPageIndex, crashed, last>>

\* fetch rejected, the response was not ok, or it had no body.
FetchFail(j) ==
    /\ jobs[j].pc = "fetch"
    /\ \E message \in {"HTTP error! status: 500", "Failed to fetch"} : Caught(j, message)

\* reader.read() rejected: the connection broke.
ReadFail(j) ==
    /\ jobs[j].pc = "reading"
    /\ Caught(j, "network error")

\* reader.read() resolved with done, after the last byte.
ReadDone(j) ==
    /\ ~crashed
    /\ jobs[j].pc = "reading"
    /\ jobs[j].rest = <<>>
    /\ jobs' = Returned(j)
    /\ loading' = FALSE
    /\ UNCHANGED <<drivers, file, streamingState, error, currentPageIndex, crashed, last>>

\* reader.read() resolved with a chunk of n bytes: one pass of the while loop.
\* (Each \E over a one-element set names a value that is computed once.)
ReadChunk(j, n) ==
    /\ ~crashed
    /\ jobs[j].pc = "reading"
    /\ n \in 1..Len(jobs[j].rest)
    /\ \E job \in {jobs[j]} :
       \E dec \in {DecoderDecode(job.pending, SubSeq(job.rest, 1, n))} :
       \E pieces \in {SplitLines(job.buffer \o dec.text)} :
       \E st \in {ProcessLines(Front(pieces),
                               [acc |-> [ss |-> streamingState, loading |-> loading,
                                         error |-> error, crashed |-> crashed],
                                delivered |-> job.delivered])} :
          /\ jobs' = [jobs EXCEPT ![j] =
                        [job EXCEPT !.rest = SubSeq(job.rest, n + 1, Len(job.rest)),
                                    !.pending = dec.pending,
                                    !.buffer = Pop(pieces),
                                    !.delivered = IF job.traced THEN st.delivered ELSE <<>>,
                                    !.cuts = Cut(job, n)]]
          /\ streamingState' = st.acc.ss
          /\ loading' = st.acc.loading
          /\ error' = st.acc.error
          /\ crashed' = st.acc.crashed
    /\ UNCHANGED <<drivers, file, currentPageIndex, last>>

\* The chunk sizes the transport may deliver to job j.
ChunkSizes(j) == (1..MaxChunk) \cup {Len(jobs[j].rest)}

ReadBytes == \E j \in 1..Len(jobs) : \E n \in ChunkSizes(j) : ReadChunk(j, n)
Fetched == \E j \in 1..Len(jobs) : FetchOk(j)
FetchFailed == \E j \in 1..Len(jobs) : FetchFail(j)
ReadFailed == \E j \in 1..Len(jobs) : ReadFail(j)
ReadEnded == \E j \in 1..Len(jobs) : ReadDone(j)

NextStream == Fetched \/ FetchFailed \/ ReadBytes \/ ReadEnded

\* One submitted job and its stream, cut into chunks in every way.
SpecStream == InitStream /\ [][NextStream]_vars

\* A read that ends where a line ends (and the blank line after it, if any):
\* the chunk sizes that hand the reducer whole frames.
FrameCuts(j) ==
    LET rest == jobs[j].rest IN
    {n \in 1..Len(rest) : rest[n] = LF /\ (n = Len(rest) \/ rest[n + 1] # LF)}

ReadFrames == \E j \in 1..Len(jobs) : \E n \in FrameCuts(j) : ReadChunk(j, n)

\* ------------------------------------------------------------ user handlers
\* const hasResults = streamingState && streamingState.results.length > 0
hasResults == streamingState # Null /\ Len(streamingState.results) > 0

IsSuccess(result) == result.status = "success"
Successful(results) == SelectSeq(results, IsSuccess)

\* handleFileChange and handleDrop: the body both run on the first file.
SelectFile(name, isPdf) ==
    IF isPdf
    THEN /\ file' = name
         /\ error' = ""
         /\ streamingState' = Null
         /\ currentPageIndex' = 0
         /\ UNCHANGED <<drivers, loading, crashed, jobs>>
    ELSE /\ error' = "Please upload a PDF file"
         /\ file' = NoFile
         /\ UNCHANGED <<drivers, loading, streamingState, currentPageIndex, crashed, jobs>>

\* The handlers below leave `last` to the action that calls them.
handleFileChange == \E name \in FileNames, isPdf \in BOOLEAN : SelectFile(name, isPdf)

handleDrop == \E name \in FileNames, isPdf \in BOOLEAN : SelectFile(name, isPdf)

\* handleSubmit up to the fetch; the server answers with a stream of `pool`.
handleSubmit(pool, traced) ==
    IF file = NoFile
    THEN /\ error' = "Please select a PDF file"
         /\ UNCHANGED <<drivers, file, loading, streamingState, currentPageIndex, crashed, jobs>>
    ELSE /\ Len(jobs) < MaxJobs
         /\ \E items \in pool :
                /\ loading' = TRUE
                /\ error' = ""
                /\ currentPageIndex' = 0
                /\ streamingState' = FreshState
                /\ jobs' = Append(jobs, NewJob(items, traced))
         /\ UNCHANGED <<drivers, file, crashed>>

handleReset ==
    /\ file' = NoFile
    /\ streamingState' = Null
    /\ error' = ""
    /\ loading' = FALSE
    /\ currentPageIndex' = 0
    /\ UNCHANGED <<drivers, crashed, jobs>>

\* `# Page ${page_number}\n\n${ocr_text}\n\n---\n`
Section(result) == [page_number |-> result.page_number, ocr_text |-> result.ocr_text]

\* Faulty variant: every entry gets a section, the pages that failed included.
SectionsUnfiltered(results) == [i \in 1..Len(results) |-> Section(results[i])]

\* results.filter(result => result.status === 'success').map(...)
Sections(results) ==
    LET ok == Successful(results) IN [i \in 1..Len(ok) |-> Section(ok[i])]

\* fullContent: the values interpolated into the template, the sections in the
\* order join('\n') writes them.
Document(ss, f, now) ==
    [title |-> IF f = NoFile THEN "Document" ELSE f,
     total_pages |-> ss.total_pages,
     successful |-> Len(Successful(ss.results)),
     generated |-> now,
     sections |-> Sections(ss.results)]

\* new Date().toLocaleString() at the time of the click.
Times == {"10:00:00", "10:00:01"}

\* The document it offers for download, if any, is recorded in last.doc.
handleDownloadMarkdown ==
    /\ UNCHANGED <<drivers, file, loading, streamingState, error, currentPageIndex, crashed, jobs>>
    /\ IF streamingState = Null \/ Len(streamingState.results) = 0
       THEN last' = Ran("download", 0, <<>>)
       ELSE \E now \in Times :
                last' = Ran("download", 0, <<Document(streamingState, file, now)>>)

\* Faulty variant: the index is raised without a look at results.
handleNextPageUnguarded ==
    /\ currentPageIndex' = currentPageIndex + 1
    /\ UNCHANGED <<drivers, file, loading, streamingState, error, crashed, jobs>>

handleNextPage ==
    /\ currentPageIndex' =
          IF streamingState # Null /\ currentPageIndex < Len(streamingState.results) - 1
          THEN currentPageIndex + 1
          ELSE currentPageIndex
    /\ UNCHANGED <<drivers, file, loading, streamingState, error, crashed, jobs>>

handlePrevPage ==
    /\ currentPageIndex' =
          IF currentPageIndex > 0 THEN currentPageIndex - 1 ELSE currentPageIndex
    /\ UNCHANGED <<drivers, file, loading, streamingState, error, crashed, jobs>>

handlePageClick(index) ==
    /\ currentPageIndex' = index
    /\ UNCHANGED <<drivers, file, loading, streamingState, error, crashed, jobs>>

\* ------------------------------------------------------- what the UI offers
\* The upload section is rendered while there are no results: the drop zone
\* and its file input, and, once a file is selected, Extract Text and Reset,
\* both disabled while loading.  A click that is no download clears `last`.
ChooseFile == ~crashed /\ ~hasResults /\ handleFileChange /\ last' = NoOp
DropFile == ~crashed /\ ~hasResults /\ handleDrop /\ last' = NoOp
ClickExtract(pool) ==
    /\ ~crashed /\ ~hasResults /\ file # NoFile /\ ~loading
    /\ handleSubmit(pool, FALSE)
    /\ last' = NoOp

\* Reset (upload section) and Upload New PDF (results section).
ClickReset ==
    /\ ~crashed /\ ~loading
    /\ hasResults \/ file # NoFile
    /\ handleReset
    /\ last' = NoOp

\* The results section: Download Markdown, the thumbnails, Previous and Next.
ClickDownload ==
    /\ ~crashed /\ hasResults /\ ~loading
    /\ Len(Successful(streamingState.results)) # 0
    /\ handleDownloadMarkdown

\* Faulty variant: one thumbnail per page of total_pages, with a placeholder for
\* a page that has no result yet.
ClickThumbnailPlaceholders ==
    /\ ~crashed /\ hasResults
    /\ \E index \in 0..(streamingState.total_pages - 1) : handlePageClick(index)
    /\ last' = NoOp

ClickThumbnail ==
    /\ ~crashed /\ hasResults
    /\ \E index \in 0..(Len(streamingState.results) - 1) : handlePageClick(index)
    /\ last' = NoOp

ClickPrev ==
    ~crashed /\ hasResults /\ currentPageIndex # 0 /\ handlePrevPage /\ last' = NoOp

\* Faulty variant: Next is also disabled while loading.
ClickNextWhenIdle ==
    /\ ~crashed /\ hasResults /\ ~loading
    /\ ~(currentPageIndex >= Len(streamingState.results) - 1)
    /\ handleNextPage
    /\ last' = NoOp

ClickNext ==
    /\ ~crashed /\ hasResults
    /\ ~(currentPageIndex >= Len(streamingState.results) - 1)
    /\ handleNextPage
    /\ last' = NoOp

\* ----------------------------------------------------- the streams of Spec
\* A stream that stops before its end: the connection or the driver died.
Prefixes(s) == {SubSeq(s, 1, k) : k \in 0..(Len(s) - 1)}

\* Events a faulty or aborting driver may put anywhere in a stream.
ExtraEvents == {ErrorEv, MetadataEv(2), ResultOk(2, "x"), CompleteEv(0)}

\* The well-formed stream of one page that succeeds, cut short or with one
\* extra event somewhere in it.
OnePage == WellFormed(1, <<"success">>)

IrregularStreams ==
    Prefixes(OnePage)
        \cup {InsertAt(OnePage, k, EventItem(e)) : k \in 0..Len(OnePage), e \in ExtraEvents}

AnyStreams == {OnePage} \cup IrregularStreams

Extract == ClickExtract(AnyStreams)

Next ==
    \/ ChooseFile \/ DropFile \/ Extract \/ ClickReset
    \/ ClickDownload \/ ClickThumbnail \/ ClickPrev \/ ClickNext
    \/ Fetched \/ FetchFailed \/ ReadFrames \/ ReadFailed \/ ReadEnded

\* The application as a user and a server drive it; chunks end at frame ends.
Spec == Init /\ [][Next]_vars

\* One submitted job and a stream of any kind, read in chunks that end at frame
\* ends; the request or the connection may fail.
InitAnyStream ==
    \E items \in AnyStreams :
        /\ file = "a.pdf"
        /\ loading = TRUE
        /\ error = ""
        /\ currentPageIndex = 0
        /\ streamingState = FreshState
        /\ crashed = FALSE
        /\ jobs = <<NewJob(items, TRUE)>>
        /\ last = NoOp
        /\ drivers = <<>>

NextAnyStream == Fetched \/ FetchFailed \/ ReadFrames \/ ReadFailed \/ ReadEnded

SpecAnyStream == InitAnyStream /\ [][NextAnyStream]_vars

\* The same, when the transport does not stall: the response arrives or the
\* fetch fails, and every pending read is settled by a chunk, by the end of the
\* stream or by a failure.
SpecAnyStreamSettles == SpecAnyStream /\ WF_vars(NextAnyStream)

\* One job on any of the streams above, regular or not, cut into chunks at any
\* byte.
InitDecoder ==
    \E items \in StreamPool \cup AnyStreams :
        /\ file = "a.pdf"
        /\ loading = TRUE
        /\ error = ""
        /\ currentPageIndex = 0
        /\ streamingState = FreshState
        /\ crashed = FALSE
        /\ jobs = <<NewJob(items, TRUE)>>
        /\ last = NoOp
        /\ drivers = <<>>

SpecDecoder == InitDecoder /\ [][NextStream]_vars

\* The same job and stream, with the navigation the results section offers.
NextView ==
    \/ Fetched \/ FetchFailed \/ ReadFrames \/ ReadFailed \/ ReadEnded
    \/ ClickThumbnail \/ ClickPrev \/ ClickNext

SpecView == InitAnyStream /\ [][NextView]_vars

\* {error && <div className="error-message">...}: part of the upload section,
\* which is rendered while there are no results.
ErrorMessageRendered == ~crashed /\ ~hasResults /\ error # ""

\* ------------------------------------------------- the handlers as functions
\* The handlers called in any state and with any argument, whatever the
\* buttons that are rendered allow, while one job streams.  Each call is put
\* on record.
HandlerStreams == WFStreams \cup {ReplayExample}

IndexArgs == -1..(MaxPages + 1)

InitHandlers ==
    \E items \in HandlerStreams :
        /\ file = "a.pdf"
        /\ loading = TRUE
        /\ error = ""
        /\ currentPageIndex = 0
        /\ streamingState = FreshState
        /\ crashed = FALSE
        /\ jobs = <<NewJob(items, FALSE)>>
        /\ last = NoOp
        /\ drivers = <<>>

CallReset == ~crashed /\ handleReset /\ last' = Ran("reset", 0, <<>>)
CallDownload == ~crashed /\ handleDownloadMarkdown
CallNext == ~crashed /\ handleNextPage /\ last' = Ran("next", 0, <<>>)
CallPrev == ~crashed /\ handlePrevPage /\ last' = Ran("prev", 0, <<>>)
CallPageClick ==
    /\ ~crashed
    /\ \E index \in IndexArgs : handlePageClick(index) /\ last' = Ran("click", index, <<>>)

NextHandlers ==
    \/ CallReset \/ CallDownload \/ CallNext \/ CallPrev \/ CallPageClick
    \/ Fetched \/ ReadFrames \/ ReadEnded

SpecHandlers == InitHandlers /\ [][NextHandlers]_vars

\* -------------------------------------------------------------- Job Driver
\* run(document): the server side of a job, as the design describes it.
\* Jobs that run on the server at the same time.
MaxDrivers == 2

\* A submitted document: whether it can be decoded, and its number of pages.
Documents ==
    {[decodable |-> TRUE, pages |-> n] : n \in 0..MaxPages}
        \cup {[decodable |-> FALSE, pages |-> 0]}

\* A run of the driver: where it stands (pc), the page it is at, the Page
\* Transformer calls it made and has in flight, whether the document or the
\* page source failed (fault), the events it emitted (out).
NewDriver(doc) ==
    [doc |-> doc, pc |-> "decode", total |-> 0, page |-> 0, calls |-> 0,
     inflight |-> 0, fault |-> FALSE, out |-> <<>>]

\* Driver d emits event e and becomes `run`.  The Event Encoder frames the
\* event and the Stream Transport appends the frame to what the consumer has
\* still to read: the first driver serves the client's request.
Send(d, e, run) ==
    /\ drivers' = [drivers EXCEPT ![d] = [run EXCEPT !.out = Append(@, e)]]
    /\ jobs' = IF d = 1 /\ Len(jobs) >= 1
               THEN [jobs EXCEPT ![1].rest = @ \o Frame(e)]
               ELSE jobs
    /\ UNCHANGED <<file, loading, streamingState, error, currentPageIndex, crashed, last>>

\* Decodes the document: Metadata{total_pages}, or Error when it cannot.
Decode(d) ==
    /\ drivers[d].pc = "decode"
    /\ IF drivers[d].doc.decodable
       THEN Send(d, MetadataEv(drivers[d].doc.pages),
                 [drivers[d] EXCEPT !.pc = "page", !.total = drivers[d].doc.pages,
                                    !.page = 1])
       ELSE Send(d, ErrorEv, [drivers[d] EXCEPT !.pc = "done", !.fault = TRUE])

\* Faulty variant: the next page is begun while the call for the page before may
\* still be in flight.
StartPagePipelined(d) ==
    /\ drivers[d].pc \in {"page", "call"}
    /\ drivers[d].page + drivers[d].inflight <= drivers[d].total
    /\ Send(d, ProcessingEv(drivers[d].page + drivers[d].inflight),
            [drivers[d] EXCEPT !.pc = "call", !.calls = @ + 1, !.inflight = @ + 1])

\* Begins a page: Processing{page}, and the Page Transformer is invoked.
StartPage(d) ==
    /\ drivers[d].pc = "page"
    /\ drivers[d].page <= drivers[d].total
    /\ Send(d, ProcessingEv(drivers[d].page),
            [drivers[d] EXCEPT !.pc = "call", !.calls = @ + 1, !.inflight = @ + 1])

\* Faulty variant: a page that fails ends the job with Error.
TransformerReturnsOrAborts(d, status) ==
    /\ drivers[d].pc = "call"
    /\ IF status = "success"
       THEN Send(d, PageResult(drivers[d].page, status),
                 [drivers[d] EXCEPT !.pc = "page", !.page = @ + 1, !.inflight = @ - 1])
       ELSE Send(d, ErrorEv, [drivers[d] EXCEPT !.pc = "done", !.inflight = @ - 1])

\* The Page Transformer returns, fails or times out: Result{page, status}, and
\* the driver moves to the next page.
TransformerReturns(d, status) ==
    /\ drivers[d].pc = "call"
    /\ Send(d, PageResult(drivers[d].page, status),
            [drivers[d] EXCEPT !.pc = "page", !.page = @ + 1, !.inflight = @ - 1])

\* Faulty variant: Complete carries the number of pages that succeeded.
FinishCountingSuccesses(d) ==
    /\ drivers[d].pc = "page"
    /\ drivers[d].page > drivers[d].total
    /\ Send(d, CompleteEv(Len(SelectSeq(drivers[d].out,
                                        LAMBDA e : e.type = "result" /\ e.status = "success"))),
            [drivers[d] EXCEPT !.pc = "done"])

\* After the last page: Complete{calls_made}.
Finish(d) ==
    /\ drivers[d].pc = "page"
    /\ drivers[d].page > drivers[d].total
    /\ Send(d, CompleteEv(drivers[d].calls), [drivers[d] EXCEPT !.pc = "done"])

\* Faulty variant: Error is emitted and the driver goes on with the page.
SourceFaultGoesOn(d) ==
    /\ drivers[d].pc = "page"
    /\ drivers[d].page <= drivers[d].total
    /\ ~drivers[d].fault
    /\ Send(d, ErrorEv, [drivers[d] EXCEPT !.fault = TRUE])

\* The page source becomes unreadable between two pages: Error, and the driver
\* terminates early.
SourceFault(d) ==
    /\ drivers[d].pc = "page"
    /\ drivers[d].page <= drivers[d].total
    /\ Send(d, ErrorEv, [drivers[d] EXCEPT !.pc = "done", !.fault = TRUE])

DriverDecodes == \E d \in 1..Len(drivers) : Decode(d)
DriverStartsPage == \E d \in 1..Len(drivers) : StartPage(d)
DriverGetsOutcome ==
    \E d \in 1..Len(drivers) : \E status \in Statuses : TransformerReturns(d, status)
DriverFinishes == \E d \in 1..Len(drivers) : Finish(d)
DriverLosesSource == \E d \in 1..Len(drivers) : SourceFault(d)

\* The transport ends the consumer's stream once the first driver terminated
\* and every frame was read.
StreamEnds == drivers[1].pc = "done" /\ ReadEnded

\* The client right after handleSubmit, its request served by a run of the
\* driver on any document.
InitDriver ==
    /\ file = "a.pdf"
    /\ loading = TRUE
    /\ error = ""
    /\ currentPageIndex = 0
    /\ streamingState = FreshState
    /\ crashed = FALSE
    /\ jobs = <<NewJob(<<>>, FALSE)>>
    /\ last = NoOp
    /\ drivers \in {<<NewDriver(doc)>> : doc \in Documents}

NextDriver ==
    \/ DriverDecodes \/ DriverStartsPage \/ DriverGetsOutcome \/ DriverFinishes
    \/ DriverLosesSource
    \/ Fetched \/ ReadFrames \/ StreamEnds

SpecDriver == InitDriver /\ [][NextDriver]_vars

\* MaxDrivers runs at the same time, each on a document of MaxPages pages, for
\* other clients than this one, which is idle.
InitDrivers ==
    /\ file = NoFile
    /\ loading = FALSE
    /\ streamingState = Null
    /\ error = ""
    /\ currentPageIndex = 0
    /\ crashed = FALSE
    /\ jobs = <<>>
    /\ last = NoOp
    /\ drivers \in [1..MaxDrivers -> {NewDriver([decodable |-> TRUE, pages |-> MaxPages])}]

NextDrivers ==
    \/ DriverDecodes \/ DriverStartsPage \/ DriverGetsOutcome \/ DriverFinishes
    \/ DriverLosesSource

SpecDrivers == InitDrivers /\ [][NextDrivers]_vars

\* ------------------------------------------------------------------ claims
\* The view right after handleSubmit.
SubmittedAcc == [ss |-> FreshState, loading |-> TRUE, error |-> "", crashed |-> FALSE]

\* The view now.
ViewAcc ==
    [ss |-> streamingState, loading |-> loading, error |-> error, crashed |-> crashed]

\* The reducer folded over a sequence of events.
RECURSIVE FoldEvents(_, _)
FoldEvents(acc, events) ==
    IF events = <<>> THEN acc
    ELSE FoldEvents(Reduce(acc, Head(events)), Tail(events))

\* The events the read loop hands to the reducer when the whole stream arrives
\* as one chunk.
DeliveredWhole(items) ==
    LET dec == DecoderDecode(FALSE, Encode(items))
        pieces == SplitLines(dec.text)
    IN ProcessLines(Front(pieces), [acc |-> SubmittedAcc, delivered |-> <<>>]).delivered

\* C1: however the transport cut the stream into chunks, once the stream has
\* ended the events handed to the reducer are, in order, those the stream
\* yields when it arrives as a single chunk.
C1_ChunkingInvariance ==
    \A j \in 1..Len(jobs) :
        jobs[j].rest = <<>> => jobs[j].delivered = DeliveredWhole(jobs[j].items)

\* A stream of at least four frames was read to its end one byte per chunk.
C1_Witness ==
    \E j \in 1..Len(jobs) :
        /\ jobs[j].pc = "reading"
        /\ jobs[j].rest = <<>>
        /\ jobs[j].cuts = "bytes"
        /\ Len(jobs[j].delivered) >= 4

\* The job's stream holds a line whose body fails to parse, with frames
\* before and after it.
HasCorruptBetween(items) ==
    \E k \in 2..(Len(items) - 1) :
        /\ items[k].kind = "corrupt"
        /\ items[k - 1].kind = "event"
        /\ items[k + 1].kind = "event"

\* C2: a line that fails to parse changes nothing and stops nothing: while the
\* stream is read the view is the reducer folded over the events delivered so
\* far, these are the stream's valid frames in order, and at the end of the
\* stream every valid frame, before and after the malformed line, was applied.
C2_FrameLocalIsolation ==
    \A j \in 1..Len(jobs) :
        LET job == jobs[j]
            all == EventsOf(job.items)
        IN /\ Len(job.delivered) <= Len(all)
           /\ job.delivered = SubSeq(all, 1, Len(job.delivered))
           /\ ViewAcc = FoldEvents(SubmittedAcc, job.delivered)
           /\ job.rest = <<>> => job.delivered = all

\* A stream with a malformed line between valid frames was read to its end,
\* and the results that follow the malformed line are in the view.
C2_Witness ==
    \E j \in 1..Len(jobs) :
        /\ jobs[j].rest = <<>>
        /\ HasCorruptBetween(jobs[j].items)
        /\ jobs[j].cuts = "mixed"
        /\ Len(streamingState.results) = MaxPages
        /\ streamingState.complete

ResultsOf(events) == SelectSeq(events, LAMBDA e : e.type = "result")

\* total_pages after a sequence of events: that of the last Metadata, else 0.
RECURSIVE TotalPagesAfter(_)
TotalPagesAfter(events) ==
    IF events = <<>> THEN 0
    ELSE IF events[Len(events)].type = "metadata" THEN events[Len(events)].total_pages
         ELSE TotalPagesAfter(SubSeq(events, 1, Len(events) - 1))

\* C4: every Result event, status=error included, appends exactly one entry:
\* results holds one entry per Result event delivered so far, in order and
\* with the event's page_number and status, and total_pages is what the last
\* Metadata event set, whatever the results were.
C4_ErrorResultAdvances ==
    \A j \in 1..Len(jobs) :
        jobs[j].pc \in {"fetch", "reading"} =>
            LET rs == ResultsOf(jobs[j].delivered) IN
            /\ Len(streamingState.results) = Len(rs)
            /\ \A i \in 1..Len(rs) :
                /\ streamingState.results[i].page_number = rs[i].page_number
                /\ streamingState.results[i].status = rs[i].status
            /\ streamingState.total_pages = TotalPagesAfter(jobs[j].delivered)

\* A page failed, its entry is in results, and a later page's result was
\* appended after it.
C4_Witness ==
    /\ streamingState # Null
    /\ \E i \in 1..Len(streamingState.results) :
        /\ streamingState.results[i].status = "error"
        /\ i < Len(streamingState.results)
        /\ streamingState.total_pages = MaxPages

\* C3: while one well-formed stream is consumed, the page numbers of results
\* are 1..k in this order for some k <= total_pages, and once Complete was
\* applied k = total_pages.
C3_PageOrder ==
    LET rs == streamingState.results IN
    /\ \A i \in 1..Len(rs) : rs[i].page_number = i
    /\ Len(rs) <= streamingState.total_pages
    /\ streamingState.complete => Len(rs) = streamingState.total_pages

\* A job of at least two pages is complete, its stream read in uneven chunks.
C3_Witness ==
    /\ streamingState.complete
    /\ Len(streamingState.results) >= 2
    /\ \E j \in 1..Len(jobs) : jobs[j].cuts = "mixed"

\* page_number and status of each entry of results.
Outcomes(results) ==
    [i \in 1..Len(results) |-> <<results[i].page_number, results[i].status>>]

\* C5: replaying an event sequence from the freshly submitted state gives one
\* final view, whatever the run: at the end of the stream results holds the
\* stream's Result events, each once and in order; the example Metadata{3},
\* Result{1,success}, Result{2,error}, Result{3,success}, Complete{3} ends with
\* total_pages = 3, results = [success(1), error(2), success(3)],
\* processing_page unset, complete and not loading.
C5_ReplayDeterminism ==
    \A j \in 1..Len(jobs) :
        jobs[j].rest = <<>> =>
            LET rs == ResultsOf(EventsOf(jobs[j].items)) IN
            /\ streamingState.results = [i \in 1..Len(rs) |-> OCRResult(rs[i])]
            /\ jobs[j].items = ReplayExample =>
                /\ streamingState.total_pages = 3
                /\ Outcomes(streamingState.results)
                      = <<<<1, "success">>, <<2, "error">>, <<3, "success">>>>
                /\ streamingState.processing_page = UndefinedNum
                /\ streamingState.complete
                /\ ~loading

\* The example stream was read to its end, in uneven chunks.
C5_Witness ==
    \E j \in 1..Len(jobs) :
        /\ jobs[j].rest = <<>>
        /\ jobs[j].items = ReplayExample
        /\ jobs[j].cuts = "mixed"
        /\ Len(streamingState.results) = 3

\* The positions of the entries of results that succeeded.
SuccessPositions(results) == {i \in 1..Len(results) : results[i].status = "success"}

SectionPages(doc) == [k \in 1..Len(doc.sections) |-> doc.sections[k].page_number]

\* C6: a download from a view with results writes one section per entry of
\* results with status success, in the order of results, and none for any
\* other entry; from [success(1), error(2), success(3)] it writes pages 1, 3.
C6_ExportFiltersFailures ==
    (last.op = "download" /\ last.from # Null /\ Len(last.from.results) > 0) =>
        /\ Len(last.doc) = 1
        /\ LET rs == last.from.results
               secs == last.doc[1].sections
           IN /\ Len(secs) = Cardinality(SuccessPositions(rs))
              /\ \E f \in [1..Len(secs) -> 1..Len(rs)] :
                    /\ \A a, b \in 1..Len(secs) : a < b => f[a] < f[b]
                    /\ \A k \in 1..Len(secs) :
                          /\ rs[f[k]].status = "success"
                          /\ secs[k].page_number = rs[f[k]].page_number
                          /\ secs[k].ocr_text = rs[f[k]].ocr_text
              /\ Outcomes(rs) = <<<<1, "success">>, <<2, "error">>, <<3, "success">>>>
                    => SectionPages(last.doc[1]) = <<1, 3>>

\* A download was made from results [success(1), error(2), success(3)].
C6_Witness ==
    /\ last.op = "download"
    /\ last.from # Null
    /\ Outcomes(last.from.results) = <<<<1, "success">>, <<2, "error">>, <<3, "success">>>>
    /\ Len(last.doc) = 1
    /\ SectionPages(last.doc[1]) = <<1, 3>>

\* C7: the page numbers of the sections of a downloaded document are strictly
\* ascending, whatever events the stream held.
C7_ExportAscending ==
    (last.op = "download" /\ Len(last.doc) = 1) =>
        \A a, b \in 1..Len(last.doc[1].sections) :
            a < b => last.doc[1].sections[a].page_number
                        < last.doc[1].sections[b].page_number

\* C8: two downloads from equal views (the same streamingState and selected
\* index) give the same document, whatever the time and the selected file.
C8_ExportDeterminism ==
    [][(/\ last.op = "download" /\ Len(last.doc) = 1
        /\ last'.op = "download" /\ Len(last'.doc) = 1
        /\ last'.from = last.from
        /\ last'.index = last.index) => last'.doc = last.doc]_vars

\* The number of entries a call found in results; none without a view.
FoundLen(call) == IF call.from = Null THEN 0 ELSE Len(call.from.results)

\* C9 as stated: handlePrevPage at index 0 and handleNextPage at index
\* len(results) - 1 or without a view leave the index, and otherwise each
\* moves it by exactly one.
C9_NavigationAsStated ==
    /\ last.op = "prev" =>
          last.post = IF last.index = 0 THEN last.index ELSE last.index - 1
    /\ last.op = "next" =>
          last.post = IF last.from = Null \/ last.index = FoundLen(last) - 1
                      THEN last.index ELSE last.index + 1

\* C9: handlePrevPage leaves the index when it is 0 or less and else lowers it
\* by one; handleNextPage leaves the index when there is no view or the index
\* is len(results) - 1 or more, and else raises it by one.
C9_NavigationBoundaries ==
    /\ last.op = "prev" =>
          last.post = IF last.index <= 0 THEN last.index ELSE last.index - 1
    /\ last.op = "next" =>
          last.post = IF last.from = Null \/ last.index >= FoundLen(last) - 1
                      THEN last.index ELSE last.index + 1

\* handleNextPage was called at the last of at least two results and left the
\* index where it was.
C9_Witness ==
    /\ last.op = "next"
    /\ FoundLen(last) >= 2
    /\ last.index = FoundLen(last) - 1
    /\ last.post = last.index

\* C10: handlePageClick(i) with i < 0 or i >= len(results) leaves the selected
\* index as it was.
C10_SelectRejectsOutOfRange ==
    (last.op = "click" /\ (last.arg < 0 \/ last.arg >= FoundLen(last))) =>
        last.post = last.index

\* C11: whatever the stream delivers and whatever the user does with what the
\* UI offers, while results is non-empty the selected index is one of its
\* positions: 0 <= currentPageIndex <= len(results) - 1.
C11_SelectedIndexInRange ==
    (~crashed /\ hasResults) =>
        /\ 0 <= currentPageIndex
        /\ currentPageIndex <= Len(streamingState.results) - 1

\* The user moved to the last of at least two results while the job streams.
C11_Witness ==
    /\ ~crashed /\ hasResults
    /\ Len(jobs) > 0
    /\ Len(streamingState.results) >= 2
    /\ currentPageIndex = Len(streamingState.results) - 1

\* C12: when the stream ended and neither Complete nor Error was applied, the
\* view is not complete and carries a mark of the interruption (the only one
\* the client has is error), so that it differs from a job that is merely not
\* complete.
C12_InterruptedIsMarked ==
    (~crashed /\ jobs = <<>> /\ ~streamingState.complete) => error # ""

IsTerminal(e) == e.type \in {"complete", "error"}

\* The events up to the first Complete or Error, this one included.
UpToTerminal(events) ==
    LET terminals == {i \in 1..Len(events) : IsTerminal(events[i])} IN
    IF terminals = {} THEN events
    ELSE SubSeq(events, 1, CHOOSE i \in terminals : \A k \in terminals : i <= k)

\* C13: once a Complete or an Error of the stream was applied, the events that
\* follow it in the stream change nothing: total_pages, results,
\* processing_page, complete and the error are what they were right after it.
C13_TerminalIsTerminal ==
    \A j \in 1..Len(jobs) :
        LET v == FoldEvents(SubmittedAcc, UpToTerminal(jobs[j].delivered)) IN
        /\ streamingState = v.ss
        /\ error = v.error

\* C14: whenever an error is recorded (an Error event, a failed request or
\* read), its message is on the screen, with or without results.
C14_ErrorIsRendered ==
    (~crashed /\ error # "") => ErrorMessageRendered

\* The last event a run emitted.
LastOut(run) == run.out[Len(run.out)]

\* The run ended with Complete.
Completed(run) == run.pc = "done" /\ run.out # <<>> /\ LastOut(run).type = "complete"

\* C15: whichever Page Transformer calls fail, a run emits one Result per page
\* with page numbers 1, 2, ... in order; after any Result, failed or not, it is
\* at the next page; and a run that ended without a fault of the document or
\* the page source ended with Complete after a Result for every page.
C15_PageFailureIsolation ==
    \A d \in 1..Len(drivers) :
        LET run == drivers[d]
            rs == ResultsOf(run.out)
        IN /\ \A i \in 1..Len(rs) : rs[i].page_number = i
           /\ Len(rs) <= run.total
           /\ (run.out # <<>> /\ LastOut(run).type = "result") =>
                 /\ run.pc = "page"
                 /\ run.page = LastOut(run).page_number + 1
           /\ (run.pc = "done" /\ ~run.fault) =>
                 /\ Completed(run)
                 /\ Len(rs) = run.total

\* A run whose first page failed went on and ended with Complete.
C15_Witness ==
    \E d \in 1..Len(drivers) :
        /\ Completed(drivers[d])
        /\ drivers[d].total = MaxPages
        /\ ResultsOf(drivers[d].out)[1].status = "error"
        /\ Len(ResultsOf(drivers[d].out)) = MaxPages

\* C16: the stream of a run that decoded its document starts with its only
\* Metadata event; a Complete or Error is the last event of a stream, and a run
\* has terminated exactly when its stream ends with one; a run that could not
\* decode its document emits Error and nothing else.
C16_StreamEnvelope ==
    \A d \in 1..Len(drivers) :
        LET run == drivers[d] IN
        /\ (run.doc.decodable /\ run.out # <<>>) =>
              /\ run.out[1].type = "metadata"
              /\ \A i \in 2..Len(run.out) : run.out[i].type # "metadata"
        /\ \A i \in 1..Len(run.out) : IsTerminal(run.out[i]) => i = Len(run.out)
        /\ run.pc = "done" <=> (run.out # <<>> /\ IsTerminal(LastOut(run)))
        /\ ~run.doc.decodable => run.out \in {<<>>, <<ErrorEv>>}

\* A run ended with Error after it had emitted Metadata and a Result.
C16_Witness ==
    \E d \in 1..Len(drivers) :
        /\ drivers[d].pc = "done"
        /\ LastOut(drivers[d]).type = "error"
        /\ drivers[d].out[1].type = "metadata"
        /\ Len(ResultsOf(drivers[d].out)) >= 1

\* No run has more than one Page Transformer call in flight and every
\* Processing{k}, k > 1, comes after a Result{k - 1}.
OnePageAtATime ==
    \A d \in 1..Len(drivers) :
        /\ drivers[d].inflight <= 1
        /\ \A i \in 1..Len(drivers[d].out) :
              (drivers[d].out[i].type = "processing" /\ drivers[d].out[i].page_number > 1) =>
                  \E h \in 1..(i - 1) :
                      /\ drivers[d].out[h].type = "result"
                      /\ drivers[d].out[h].page_number = drivers[d].out[i].page_number - 1

\* A step of one run leaves every other run as it was.
RunsAreIsolated ==
    \A d, e \in 1..Len(drivers) :
        (d # e /\ drivers'[d] # drivers[d]) => drivers'[e] = drivers[e]

\* C17: pages are processed one at a time within a job, and jobs that run at
\* the same time do not change each other's state.
C17_SequentialPages == []OnePageAtATime /\ [][RunsAreIsolated]_vars

\* Two runs are each waiting for the Page Transformer, at different pages.
C17_Witness ==
    /\ Len(drivers) >= 2
    /\ drivers[1].pc = "call" /\ drivers[1].inflight = 1
    /\ drivers[2].pc = "call" /\ drivers[2].inflight = 1
    /\ drivers[1].page # drivers[2].page

\* The client has read the whole stream of the run that serves it.
ClientReadAll ==
    /\ drivers[1].pc = "done"
    /\ jobs = <<>> \/ (jobs[1].pc = "reading" /\ jobs[1].rest = <<>>)

\* C18: a run that ended with Complete{calls_made} has calls_made = total_pages
\* = the Page Transformer calls it made = the Result events it emitted; and the
\* client that read its stream has api_calls_made = total_pages = len(results).
C18_OneCallPerPage ==
    /\ \A d \in 1..Len(drivers) :
          Completed(drivers[d]) =>
              /\ LastOut(drivers[d]).api_calls_made = drivers[d].total
              /\ drivers[d].calls = drivers[d].total
              /\ Len(ResultsOf(drivers[d].out)) = drivers[d].total
    /\ (Completed(drivers[1]) /\ ClientReadAll) =>
          /\ streamingState.api_calls_made = streamingState.total_pages
          /\ streamingState.total_pages = Len(streamingState.results)
          /\ streamingState.total_pages = drivers[1].total

\* The client read the whole stream of a job of MaxPages pages, one of them
\* failed.
C18_Witness ==
    /\ Completed(drivers[1]) /\ ClientReadAll
    /\ streamingState.api_calls_made = MaxPages
    /\ \E i \in 1..Len(streamingState.results) : streamingState.results[i].status = "error"

\* C19: right after a Metadata{n} event was applied, total_pages = n and
\* results is empty, whatever results held before the event.
C19_MetadataClearsResults ==
    \A j \in 1..Len(jobs) :
        LET seen == jobs[j].delivered IN
        (seen # <<>> /\ seen[Len(seen)].type = "metadata") =>
            /\ streamingState.total_pages = seen[Len(seen)].total_pages
            /\ streamingState.results = <<>>

\* The step applies exactly one event, a Result, of job j's stream.
AppliesOneResult(j) ==
    /\ Len(jobs') = Len(jobs)
    /\ Len(jobs'[j].delivered) = Len(jobs[j].delivered) + 1
    /\ jobs'[j].delivered[Len(jobs'[j].delivered)].type = "result"

\* C20: applying a Result event appends one entry with the event's
\* page_number, status, text, error and image after the entries results held,
\* which stay as they were, clears processing_page, and a first result leaves
\* the selected index at 0.
C20_ResultTransition ==
    [][\A j \in 1..Len(jobs) :
          AppliesOneResult(j) =>
              LET data == jobs'[j].delivered[Len(jobs'[j].delivered)] IN
              /\ streamingState'.results
                    = streamingState.results
                        \o <<[page_number |-> data.page_number, ocr_text |-> data.ocr_text,
                              status |-> data.status, error |-> data.error,
                              page_image |-> data.page_image]>>
              /\ streamingState'.processing_page = UndefinedNum
              /\ Len(streamingState.results) = 0 => currentPageIndex' = 0]_vars

\* A Result was just applied after a Processing event had set processing_page,
\* and it was not the first.
C20_Witness ==
    \E j \in 1..Len(jobs) :
        LET seen == jobs[j].delivered IN
        /\ Len(seen) >= 2
        /\ seen[Len(seen)].type = "result"
        /\ seen[Len(seen) - 1].type = "processing"
        /\ Len(streamingState.results) >= 2
        /\ streamingState.processing_page = UndefinedNum

\* The step applies exactly one event of job j's stream, of this type.
AppliesOne(j, type) ==
    /\ Len(jobs') = Len(jobs)
    /\ Len(jobs'[j].delivered) = Len(jobs[j].delivered) + 1
    /\ jobs'[j].delivered[Len(jobs'[j].delivered)].type = type

\* The event a step that applies one event applies.
Applied(j) == jobs'[j].delivered[Len(jobs'[j].delivered)]

\* C21: applying Processing{n} sets processing_page = n and leaves
\* total_pages, results, complete, the selected index, error and loading.
C21_ProcessingTransition ==
    [][\A j \in 1..Len(jobs) :
          AppliesOne(j, "processing") =>
              /\ streamingState'.processing_page = Applied(j).page_number
              /\ streamingState'.total_pages = streamingState.total_pages
              /\ streamingState'.results = streamingState.results
              /\ streamingState'.complete = streamingState.complete
              /\ currentPageIndex' = currentPageIndex
              /\ error' = error
              /\ loading' = loading]_vars

\* A Processing event was just applied to a view that holds a result.
C21_Witness ==
    \E j \in 1..Len(jobs) :
        LET seen == jobs[j].delivered IN
        /\ seen # <<>>
        /\ seen[Len(seen)].type = "processing"
        /\ streamingState.processing_page = seen[Len(seen)].page_number
        /\ Len(streamingState.results) >= 1

\* C22: applying Error{message} records the message and clears loading, and
\* leaves total_pages, results, complete (so an Error does not complete the
\* job) and the selected index.
C22_ErrorTransition ==
    [][\A j \in 1..Len(jobs) :
          AppliesOne(j, "error") =>
              /\ error' = Applied(j).message
              /\ loading' = FALSE
              /\ streamingState'.total_pages = streamingState.total_pages
              /\ streamingState'.results = streamingState.results
              /\ streamingState'.complete = streamingState.complete
              /\ currentPageIndex' = currentPageIndex]_vars

\* An Error event was just applied to a view with a result, before Complete.
C22_Witness ==
    \E j \in 1..Len(jobs) :
        LET seen == jobs[j].delivered IN
        /\ seen # <<>>
        /\ seen[Len(seen)].type = "error"
        /\ error = "boom"
        /\ ~loading
        /\ Len(streamingState.results) >= 1
        /\ ~streamingState.complete

\* Whatever loading, complete and error are, a thumbnail can be clicked while
\* there are results, Previous unless the first one is selected, Next unless
\* the last one is.
NavigationOffered ==
    (~crashed /\ hasResults) =>
        /\ ENABLED ClickThumbnail
        /\ currentPageIndex > 0 => ENABLED ClickPrev
        /\ currentPageIndex < Len(streamingState.results) - 1 => ENABLED ClickNext

\* A navigation step changes nothing but the selected index.
NavigationMovesIndexOnly ==
    (ClickThumbnail \/ ClickPrev \/ ClickNext) =>
        /\ streamingState' = streamingState
        /\ error' = error
        /\ loading' = loading
        /\ file' = file
        /\ jobs' = jobs

\* C24: next, prev and select on existing results are offered in every phase
\* of the stream and change only the selected index.
C24_NavigationAnyPhase == []NavigationOffered /\ [][NavigationMovesIndexOnly]_vars

\* The second result is selected while the job is still loading.
C24_Witness ==
    /\ loading
    /\ hasResults
    /\ currentPageIndex = 1
    /\ \E j \in 1..Len(jobs) : jobs[j].pc = "reading"

\* The step is one pass of job j's read loop over a chunk.
ReadsChunk(j) ==
    /\ Len(jobs') = Len(jobs)
    /\ Len(jobs'[j].rest) < Len(jobs[j].rest)

\* The events job j handed to the reducer in this step.
AppliedNow(j) ==
    SubSeq(jobs'[j].delivered, Len(jobs[j].delivered) + 1, Len(jobs'[j].delivered))

\* The view after the step.
ViewAccNext ==
    [ss |-> streamingState', loading |-> loading', error |-> error',
     crashed |-> crashed']

\* C23: one pass of the read loop applies, in order, every event its chunk
\* completes before the next chunk is read: the view after the pass is the
\* view before it with these events folded in, and no completed line is left
\* in the buffer for a later pass.
C23_ChunkAtomicity ==
    [][\A j \in 1..Len(jobs) :
          ReadsChunk(j) =>
              /\ Len(jobs'[j].delivered) >= Len(jobs[j].delivered)
              /\ SubSeq(jobs'[j].delivered, 1, Len(jobs[j].delivered)) = jobs[j].delivered
              /\ ViewAccNext = FoldEvents(ViewAcc, AppliedNow(j))
              /\ \A i \in 1..Len(jobs'[j].buffer) : jobs'[j].buffer[i] # LF]_vars

\* A stream of at least four frames arrived as a single chunk, and its last
\* result is in the view.
C23_Witness ==
    \E j \in 1..Len(jobs) :
        /\ jobs[j].rest = <<>>
        /\ jobs[j].cuts = "whole"
        /\ Len(jobs[j].delivered) >= 4
        /\ Len(streamingState.results) = MaxPages
        /\ streamingState.complete

\* How many bytes of its stream job has read.
Received(job) == Len(Encode(job.items)) - Len(job.rest)

\* Where in the stream the line of item k ends: the position of its newline.
LineEnd(items, k) ==
    LET bytes == ItemBytes(items[k])
    IN Len(Encode(SubSeq(items, 1, k - 1)))
          + (CHOOSE i \in 1..Len(bytes) :
                bytes[i] = LF /\ \A h \in 1..(i - 1) : bytes[h] # LF)

\* The items of the stream whose line is terminated within the first n bytes.
TerminatedItems(items, n) ==
    SubSeq(items, 1, Cardinality({k \in 1..Len(items) : LineEnd(items, k) <= n}))

\* The text after the last newline within the first n bytes of the stream.
TrailingFragment(items, n) ==
    LET bytes == Encode(items)
        ends == {i \in 1..n : bytes[i] = LF}
        from == IF ends = {} THEN 1
                ELSE (CHOOSE i \in ends : \A h \in ends : h <= i) + 1
    IN Utf8Decode(FALSE, SubSeq(bytes, from, n)).text

\* C25: at every point of the read loop the events handed to the reducer are
\* those of the frames whose line is terminated in the bytes received, once
\* each and in stream order, and the buffer is the unterminated text after
\* the last newline received.
C25_ExactlyOnceInOrder ==
    \A j \in 1..Len(jobs) :
        LET job == jobs[j] IN
        /\ job.delivered = EventsOf(TerminatedItems(job.items, Received(job)))
        /\ job.buffer = TrailingFragment(job.items, Received(job))

\* A stream that yields page 2 before page 1 is read byte by byte: the result
\* of page 2 is applied, and the buffer holds the start of a line whose
\* newline has not arrived.
C25_Witness ==
    \E j \in 1..Len(jobs) :
        /\ jobs[j].cuts = "bytes"
        /\ Len(jobs[j].buffer) > Len(Prefix)
        /\ StartsWithData(jobs[j].buffer)
        /\ Len(streamingState.results) = 1
        /\ streamingState.results[1].page_number = 2
        /\ jobs[j].items[Len(jobs[j].items) - 1] = EventItem(ResultOk(1, PageText(1)))

\* The step belongs to a handleSubmit call that is not the latest one: the
\* latest call stands where it stood, an earlier one moved or returned.
EarlierJobSteps ==
    /\ Len(jobs) >= 2
    /\ Len(jobs') <= Len(jobs)
    /\ jobs' # jobs
    /\ jobs'[Len(jobs')] = jobs[Len(jobs)]

\* C26: the stream of an earlier submission changes nothing of the view that
\* belongs to a later submission.
C26_CrossJobIsolation ==
    [][EarlierJobSteps =>
          /\ streamingState' = streamingState
          /\ loading' = loading
          /\ error' = error
          /\ currentPageIndex' = currentPageIndex]_vars

\* C27: a state updater of the read loop never finds the view state null.
C27_ViewNonNullAtUpdate == ~crashed

\* While loading is true the stream is open and no Complete or Error was
\* applied.
LoadingOnlyWhileOpen ==
    loading =>
        /\ jobs # <<>>
        /\ \A j \in 1..Len(jobs) :
              \A i \in 1..Len(jobs[j].delivered) : ~IsTerminal(jobs[j].delivered[i])

\* C28: once a submission has set loading, loading becomes false when the
\* stream terminates, whichever way (Complete, Error, end of stream, a response
\* that is not OK, a read that throws), and until then it is true only while
\* the stream is open and no terminal event was applied.
C28_LoadingClears == []LoadingOnlyWhileOpen /\ (loading ~> ~loading)

\* A stream ended after a result without Complete or Error, and loading is
\* false.
C28_Witness ==
    /\ jobs = <<>>
    /\ ~loading
    /\ error = ""
    /\ ~streamingState.complete
    /\ Len(streamingState.results) >= 1

\* The event types the if-chain has a branch for.
KnownTypes == {"metadata", "processing", "result", "complete", "error"}

IsKnown(e) == e.type \in KnownTypes

\* The step is a pass of job j's read loop in which no event of a known type
\* reached the if-chain: the chunk completed only blank lines, comment lines,
\* lines that fail to parse, events of an unknown type, or no line at all.
ReadsNoKnownEvent(j) ==
    /\ ReadsChunk(j)
    /\ \A i \in (Len(jobs[j].delivered) + 1)..Len(jobs'[j].delivered) :
          ~IsKnown(jobs'[j].delivered[i])

\* Lines that are no frame and events of an unknown type change nothing.
IgnoredLinesChangeNothing ==
    \A j \in 1..Len(jobs) :
        ReadsNoKnownEvent(j) =>
            /\ streamingState' = streamingState
            /\ loading' = loading
            /\ error' = error
            /\ currentPageIndex' = currentPageIndex
            /\ crashed' = crashed

\* They stop nothing either: at the end of the stream the view is the reducer
\* folded over the stream's events of a known type.
KnownEventsAllApplied ==
    \A j \in 1..Len(jobs) :
        jobs[j].rest = <<>> =>
            ViewAcc = FoldEvents(SubmittedAcc, SelectSeq(EventsOf(jobs[j].items), IsKnown))

\* C29: a line that does not start with "data: " (the blank delimiter lines
\* included) and a frame whose type is none of the five known ones leave the
\* view as it is, and the frames after it are consumed.
C29_IgnoredLines == []KnownEventsAllApplied /\ [][IgnoredLinesChangeNothing]_vars

\* A stream with an event of an unknown type, or a comment line, between two
\* frames was read to its end, and every result is in the view.
C29_Witness ==
    \E j \in 1..Len(jobs) :
        /\ jobs[j].rest = <<>>
        /\ \E k \in 2..(Len(jobs[j].items) - 1) :
              jobs[j].items[k] \in {EventItem(UnknownEv), CommentItem}
        /\ Len(streamingState.results) = MaxPages
        /\ streamingState.complete
        /\ loading = FALSE
        /\ error = ""

\* C30: whatever events a job's stream applies, no two entries of results
\* have the same page_number, and once Metadata was applied results has at
\* most total_pages entries.
C30_UniquePagesWithinTotal ==
    (~crashed /\ streamingState # Null) =>
        LET results == streamingState.results IN
        /\ \A i, k \in 1..Len(results) :
              results[i].page_number = results[k].page_number => i = k
        /\ \A j \in 1..Len(jobs) :
              (\E i \in 1..Len(jobs[j].delivered) : jobs[j].delivered[i].type = "metadata")
                  => Len(results) <= streamingState.total_pages

\* streamingState.processing_page is set.
CursorSet == streamingState.processing_page # UndefinedNum

\* The last event job j handed to the reducer is a Result.
ResultAppliedLast(j) ==
    /\ jobs[j].delivered # <<>>
    /\ jobs[j].delivered[Len(jobs[j].delivered)].type = "result"

\* C31: while a well-formed stream is consumed, processing_page, when set, is
\* the number of the page after the results received and is at most
\* total_pages, and it is unset right after every Result event.
C31_ProgressCursor ==
    (~crashed /\ streamingState # Null) =>
        /\ CursorSet =>
              /\ streamingState.processing_page = Len(streamingState.results) + 1
              /\ streamingState.processing_page <= streamingState.total_pages
        /\ \A j \in 1..Len(jobs) : ResultAppliedLast(j) => ~CursorSet

\* The last page of a job of MaxPages pages is being processed: the results of
\* the pages before it are in the view, the cursor was unset after each of
\* them and is set again.
C31_Witness ==
    /\ loading
    /\ streamingState.total_pages = MaxPages
    /\ streamingState.processing_page = MaxPages
    /\ Len(streamingState.results) = MaxPages - 1
    /\ \E j \in 1..Len(jobs) :
          /\ Len(jobs[j].delivered) >= 2
          /\ jobs[j].delivered[Len(jobs[j].delivered) - 1].type = "result"

====
